---------------------------- MODULE Spec2Model ----------------------------
(***************************************************************************)
(* RenormIsing: a model of Source.cpp.  main() enumerates the 64           *)
(* configurations of six Ising spins on a ring, maps each to two block     *)
(* spins by majority rule, computes both energies, writes a raw table,     *)
(* counts the configurations per H1 in two std::map tables and writes the  *)
(* two summary equations.                                                  *)
(*                                                                         *)
(* Iterators are modelled as 1-based positions into a sequence; a range    *)
(* [first, last) is half open as in the C++ code, begin() = 1 and          *)
(* end() = Len + 1.                                                        *)
(*                                                                         *)
(* An std::ofstream is modelled as a record                                *)
(*   [good, buf, file]:  good is the stream state (no failbit/badbit),     *)
(*   buf the text inserted since the last endl, file the lines the flush   *)
(*   of an endl has put in the artifact.  Opening may fail and every       *)
(*   flush may fail; a stream that is not good ignores every insertion.    *)
(***************************************************************************)
EXTENDS Integers, Sequences, FiniteSets, TLC

VARIABLES pc,          \* position of main(), named after the source line
          mask,        \* line 75: the loop variable of the enumeration
          i,           \* line 79: the loop variable of the spin loop
          v,           \* line 70: vector<renorm_row>
          config_data, \* line 71: the stream of cfg_out.txt
          vi,          \* line 102: the vector iterator of the counting loop
          counts_primed_spins_equal,   \* line 98
          counts_primed_spins_unequal, \* line 99
          ofs,         \* line 118: the stream of renorm_out.txt
          first_iter,  \* line 120
          mi,          \* lines 121, 133: the map iterator
          ret,         \* the value main() returned (-1: not returned)
          ring,        \* the ring energy() is applied to (SpecRing)
          ring0,       \* the ring energy() was first applied to
          e,           \* the last value energy() returned
          e0,          \* the value energy() returned for ring0
          rpc          \* position of the energy() harness

vars == <<pc, mask, i, v, config_data, vi, counts_primed_spins_equal,
          counts_primed_spins_unequal, ofs, first_iter, mi, ret,
          ring, ring0, e, e0, rpc>>

mainVars == <<pc, mask, i, v, config_data, vi, counts_primed_spins_equal,
              counts_primed_spins_unequal, ofs, first_iter, mi, ret>>

ringVars == <<ring, ring0, e, e0, rpc>>

\* line 79: the number of spins of a configuration
NumSpins == 6

\* line 75: 1 << 6, the number of configurations
NumConfigs == 64

\* lines 86, 90: begin() + 3, the size of a block
BlockSize == 3

\* the longest ring energy() is applied to in SpecRing
MaxRing == 6

Spins == {1, -1}

Min(S) == CHOOSE x \in S : \A y \in S : x <= y

-----------------------------------------------------------------------------
(* The pure functions *)

\* std::accumulate(first, last, init)
RECURSIVE accumulate(_, _, _, _)
accumulate(r, first, last, init) ==
    IF first < last THEN accumulate(r, first + 1, last, init + r[first])
    ELSE init

\* a mutant of majority_rule: the threshold is off by one
majority_rule_gt1(r, first, last) ==
    IF accumulate(r, first, last, 0) > 1 THEN 1 ELSE -1

\* lines 44-50
majority_rule(r, first, last) ==
    IF accumulate(r, first, last, 0) > 0 THEN 1 ELSE -1

\* lines 59-62: for (It k = first; k < last - 1; ++k) s += (*k)*(*(k+1))
RECURSIVE energy_loop(_, _, _, _)
energy_loop(r, k, last, s) ==
    IF k < last - 1 THEN energy_loop(r, k + 1, last, s + r[k] * r[k + 1])
    ELSE s

\* a mutant of energy: the wrap-around product is missing
energy_nowrap(r, first, last) == energy_loop(r, first, last, 0)

\* a mutant of energy: the wrap-around multiplies the last element by itself
energy_wrap_self(r, first, last) ==
    energy_loop(r, first, last, 0) + r[last - 1] * r[last - 1]

\* a mutant of energy: the loop starts one element late
energy_late(r, first, last) ==
    energy_loop(r, first + 1, last, 0) + r[last - 1] * r[first]

\* lines 55-65
energy(r, first, last) ==
    energy_loop(r, first, last, 0) + r[last - 1] * r[first]

\* a mutant of bit_spin: the bits are taken in the opposite order
bit_spin_lsb_first(m, k) == IF (m \div 2^k) % 2 = 1 THEN 1 ELSE -1

\* lines 77, 82: bitset<6> bits(mask); bits[5-i] ? 1 : -1
bit_spin(m, k) == IF (m \div 2^(NumSpins - 1 - k)) % 2 = 1 THEN 1 ELSE -1

\* line 78: renorm_row(), value-initialised: empty vectors, zero ints
renorm_row == [spin1 |-> <<>>, H1 |-> 0, spin2 |-> <<>>, H2 |-> 0]

-----------------------------------------------------------------------------
(* std::ofstream *)

NoStream == [good |-> FALSE, buf |-> <<>>, file |-> <<>>]

\* ofstream(name): the open succeeds or sets failbit
Opened == {[good |-> g, buf |-> <<>>, file |-> <<>>] : g \in BOOLEAN}

\* operator<< : a no-op on a stream that is not good
Insert(st, toks) == IF st.good THEN [st EXCEPT !.buf = @ \o toks] ELSE st

\* << endl : the line is flushed to the file, or the flush fails (badbit)
Endl(st, line) ==
    IF st.good
    THEN {[st EXCEPT !.buf = <<>>, !.file = Append(@, line)],
          [st EXCEPT !.buf = <<>>, !.good = FALSE]}
    ELSE {st}

Header == [kind |-> "header", cols |-> <<>>]

DataLine(cols) == [kind |-> "data", cols |-> cols]

LabelEqual == [tok |-> "Exp[A(k)+2k'] = ", count |-> 0, key |-> 0]

LabelUnequal == [tok |-> "Exp[A(k)-2k'] = ", count |-> 0, key |-> 0]

Plus == [tok |-> "+ ", count |-> 0, key |-> 0]

Term(c, k) == [tok |-> "Exp[ k]", count |-> c, key |-> k]

-----------------------------------------------------------------------------
(* std::map<int,int> *)

EmptyMap == [k \in {} |-> 0]

\* ++m[k]: operator[] inserts a zero for an absent key
MapIncrement(m, k) ==
    [x \in DOMAIN m \cup {k} |-> IF x = k
                                 THEN (IF k \in DOMAIN m THEN m[k] ELSE 0) + 1
                                 ELSE m[x]]

MapEnd == [end |-> TRUE, key |-> 0]

\* a mutant of MapFrom: the keys are visited in descending order
MapFromDescending(keys) ==
    IF keys = {} THEN MapEnd
    ELSE [end |-> FALSE, key |-> CHOOSE x \in keys : \A y \in keys : x >= y]

\* the iterator at the smallest of keys: a map is iterated in key order
MapFrom(keys) ==
    IF keys = {} THEN MapEnd ELSE [end |-> FALSE, key |-> Min(keys)]

\* m.begin()
MapBegin(m) == MapFrom(DOMAIN m)

\* ++it
MapNext(m, it) == MapFrom({k \in DOMAIN m : k > it.key})

-----------------------------------------------------------------------------
(* main() *)

Init ==
    /\ pc = "l71"
    /\ mask = 0
    /\ i = 0
    /\ v = <<>>
    /\ config_data = NoStream
    /\ vi = 1
    /\ counts_primed_spins_equal = EmptyMap
    /\ counts_primed_spins_unequal = EmptyMap
    /\ ofs = NoStream
    /\ first_iter = TRUE
    /\ mi = MapEnd
    /\ ret = -1
    /\ ring = <<>>
    /\ ring0 = <<>>
    /\ e = 0
    /\ e0 = 0
    /\ rpc = "off"

\* v.back()
back == v[Len(v)]

\* line 71: ofstream config_data("cfg_out.txt")
L71 ==
    /\ pc = "l71"
    /\ config_data' \in Opened
    /\ pc' = "l72"
    /\ UNCHANGED <<mask, i, v, vi, counts_primed_spins_equal,
                   counts_primed_spins_unequal, ofs, first_iter, mi, ret>>
    /\ UNCHANGED ringVars

\* line 72: the header line and its endl; line 75: mask = 0
L72 ==
    /\ pc = "l72"
    /\ config_data' \in Endl(config_data, Header)
    /\ mask' = 0
    /\ pc' = "l75"
    /\ UNCHANGED <<i, v, vi, counts_primed_spins_equal,
                   counts_primed_spins_unequal, ofs, first_iter, mi, ret>>
    /\ UNCHANGED ringVars

\* line 75: mask != (1 << 6); lines 98-99, 102 when the loop ends
L75 ==
    /\ pc = "l75"
    /\ IF mask # NumConfigs
       THEN /\ pc' = "l78"
            /\ UNCHANGED <<vi, counts_primed_spins_equal,
                           counts_primed_spins_unequal>>
       ELSE /\ pc' = "l102"
            /\ counts_primed_spins_equal' = EmptyMap
            /\ counts_primed_spins_unequal' = EmptyMap
            /\ vi' = 1
    /\ UNCHANGED <<mask, i, v, config_data, ofs, first_iter, mi, ret>>
    /\ UNCHANGED ringVars

\* lines 77-79: v.push_back(renorm_row()); i = 0
L78 ==
    /\ pc = "l78"
    /\ v' = Append(v, renorm_row)
    /\ i' = 0
    /\ pc' = "l82"
    /\ UNCHANGED <<mask, config_data, vi, counts_primed_spins_equal,
                   counts_primed_spins_unequal, ofs, first_iter, mi, ret>>
    /\ UNCHANGED ringVars

\* lines 79-83: one turn of the spin loop
L82 ==
    /\ pc = "l82"
    /\ i < NumSpins
    /\ v' = [v EXCEPT ![Len(v)].spin1 = Append(@, bit_spin(mask, i))]
    /\ i' = i + 1
    /\ pc' = IF i + 1 < NumSpins THEN "l82" ELSE "l84"
    /\ UNCHANGED <<mask, config_data, vi, counts_primed_spins_equal,
                   counts_primed_spins_unequal, ofs, first_iter, mi, ret>>
    /\ UNCHANGED ringVars

\* line 84
L84 ==
    /\ pc = "l84"
    /\ v' = [v EXCEPT ![Len(v)].H1 =
                 energy(back.spin1, 1, Len(back.spin1) + 1)]
    /\ pc' = "l85"
    /\ UNCHANGED <<mask, i, config_data, vi, counts_primed_spins_equal,
                   counts_primed_spins_unequal, ofs, first_iter, mi, ret>>
    /\ UNCHANGED ringVars

\* lines 85-86
L85 ==
    /\ pc = "l85"
    /\ v' = [v EXCEPT ![Len(v)].spin2 =
                 Append(@, majority_rule(back.spin1, 1, 1 + BlockSize))]
    /\ pc' = "l87"
    /\ UNCHANGED <<mask, i, config_data, vi, counts_primed_spins_equal,
                   counts_primed_spins_unequal, ofs, first_iter, mi, ret>>
    /\ UNCHANGED ringVars

\* a mutant of Cols87: the block spin is written before the spins
Cols87BlockFirst(row) ==
    <<row.spin2[1], row.spin1[1], row.spin1[2], row.spin1[3]>>

\* lines 87-88: the values inserted, in order
Cols87(row) == <<row.spin1[1], row.spin1[2], row.spin1[3], row.spin2[1]>>

\* lines 92-94: the values inserted, in order
Cols92(row) ==
    <<row.spin1[4], row.spin1[5], row.spin1[6], row.spin2[2], row.H1, row.H2>>

\* lines 87-88
L87 ==
    /\ pc = "l87"
    /\ config_data' = Insert(config_data, Cols87(back))
    /\ pc' = "l89"
    /\ UNCHANGED <<mask, i, v, vi, counts_primed_spins_equal,
                   counts_primed_spins_unequal, ofs, first_iter, mi, ret>>
    /\ UNCHANGED ringVars

\* lines 89-90
L89 ==
    /\ pc = "l89"
    /\ v' = [v EXCEPT ![Len(v)].spin2 =
                 Append(@, majority_rule(back.spin1, 1 + BlockSize,
                                         Len(back.spin1) + 1))]
    /\ pc' = "l91"
    /\ UNCHANGED <<mask, i, config_data, vi, counts_primed_spins_equal,
                   counts_primed_spins_unequal, ofs, first_iter, mi, ret>>
    /\ UNCHANGED ringVars

\* line 91
L91 ==
    /\ pc = "l91"
    /\ v' = [v EXCEPT ![Len(v)].H2 =
                 energy(back.spin2, 1, Len(back.spin2) + 1)]
    /\ pc' = "l92"
    /\ UNCHANGED <<mask, i, config_data, vi, counts_primed_spins_equal,
                   counts_primed_spins_unequal, ofs, first_iter, mi, ret>>
    /\ UNCHANGED ringVars

\* lines 92-94 and the ++mask of line 75
L92 ==
    /\ pc = "l92"
    /\ LET st == Insert(config_data, Cols92(back))
       IN  config_data' \in Endl(st, DataLine(st.buf))
    /\ mask' = mask + 1
    /\ pc' = "l75"
    /\ UNCHANGED <<i, v, vi, counts_primed_spins_equal,
                   counts_primed_spins_unequal, ofs, first_iter, mi, ret>>
    /\ UNCHANGED ringVars

\* a mutant of CountKey: the table is keyed by the block energy
CountKeyH2(row) == row.H2

\* lines 107, 112: the key counted is i->H1
CountKey(row) == row.H1

\* a mutant of L105: the test assigns (=) where it should compare (==)
L105Assign ==
    /\ pc = "l102"
    /\ vi <= Len(v)
    /\ v' = [v EXCEPT ![vi].spin2[1] = v[vi].spin2[2]]
    /\ IF v'[vi].spin2[1] # 0
       THEN /\ counts_primed_spins_equal' =
                   MapIncrement(counts_primed_spins_equal, CountKey(v'[vi]))
            /\ UNCHANGED counts_primed_spins_unequal
       ELSE /\ counts_primed_spins_unequal' =
                   MapIncrement(counts_primed_spins_unequal, CountKey(v'[vi]))
            /\ UNCHANGED counts_primed_spins_equal
    /\ vi' = vi + 1
    /\ UNCHANGED <<pc, mask, i, config_data, ofs, first_iter, mi, ret>>
    /\ UNCHANGED ringVars

\* lines 102-114: one turn of the counting loop
L105 ==
    /\ pc = "l102"
    /\ vi <= Len(v)
    /\ IF v[vi].spin2[1] = v[vi].spin2[2]
       THEN /\ counts_primed_spins_equal' =
                   MapIncrement(counts_primed_spins_equal, CountKey(v[vi]))
            /\ UNCHANGED counts_primed_spins_unequal
       ELSE /\ counts_primed_spins_unequal' =
                   MapIncrement(counts_primed_spins_unequal, CountKey(v[vi]))
            /\ UNCHANGED counts_primed_spins_equal
    /\ vi' = vi + 1
    /\ UNCHANGED <<pc, mask, i, v, config_data, ofs, first_iter, mi, ret>>
    /\ UNCHANGED ringVars

\* line 102: i == v.end(), the counting loop ends
L102Exit ==
    /\ pc = "l102"
    /\ vi = Len(v) + 1
    /\ pc' = "l118"
    /\ UNCHANGED <<mask, i, v, config_data, vi, counts_primed_spins_equal,
                   counts_primed_spins_unequal, ofs, first_iter, mi, ret>>
    /\ UNCHANGED ringVars

\* line 118: ofstream ofs("renorm_out.txt")
L118 ==
    /\ pc = "l118"
    /\ ofs' \in Opened
    /\ pc' = "l119"
    /\ UNCHANGED <<mask, i, v, config_data, vi, counts_primed_spins_equal,
                   counts_primed_spins_unequal, first_iter, mi, ret>>
    /\ UNCHANGED ringVars

\* lines 119-121: the label of the first equation and the loop's start
L119 ==
    /\ pc = "l119"
    /\ ofs' = Insert(ofs, <<LabelEqual>>)
    /\ first_iter' = TRUE
    /\ mi' = MapBegin(counts_primed_spins_equal)
    /\ pc' = "l121"
    /\ UNCHANGED <<mask, i, v, config_data, vi, counts_primed_spins_equal,
                   counts_primed_spins_unequal, ret>>
    /\ UNCHANGED ringVars

\* lines 124-128 and 136-140: the body of a writing loop over the map m
Body(m) ==
    /\ ~mi.end
    /\ ofs' = Insert(IF first_iter THEN ofs ELSE Insert(ofs, <<Plus>>),
                     <<Term(m[mi.key], mi.key)>>)
    /\ first_iter' = FALSE
    /\ mi' = MapNext(m, mi)

\* lines 121-129: one turn of the first writing loop
L124 ==
    /\ pc = "l121"
    /\ Body(counts_primed_spins_equal)
    /\ UNCHANGED <<pc, mask, i, v, config_data, vi, counts_primed_spins_equal,
                   counts_primed_spins_unequal, ret>>
    /\ UNCHANGED ringVars

\* lines 130-133: endl, the label of the second equation, the loop's start
L130 ==
    /\ pc = "l121"
    /\ mi.end
    /\ ofs' \in {Insert(st, <<LabelUnequal>>) : st \in Endl(ofs, ofs.buf)}
    /\ first_iter' = TRUE
    /\ mi' = MapBegin(counts_primed_spins_unequal)
    /\ pc' = "l133"
    /\ UNCHANGED <<mask, i, v, config_data, vi, counts_primed_spins_equal,
                   counts_primed_spins_unequal, ret>>
    /\ UNCHANGED ringVars

\* lines 133-141: one turn of the second writing loop
L136 ==
    /\ pc = "l133"
    /\ Body(counts_primed_spins_unequal)
    /\ UNCHANGED <<pc, mask, i, v, config_data, vi, counts_primed_spins_equal,
                   counts_primed_spins_unequal, ret>>
    /\ UNCHANGED ringVars

\* line 142
L142 ==
    /\ pc = "l133"
    /\ mi.end
    /\ ofs' \in Endl(ofs, ofs.buf)
    /\ pc' = "l143"
    /\ UNCHANGED <<mask, i, v, config_data, vi, counts_primed_spins_equal,
                   counts_primed_spins_unequal, first_iter, mi, ret>>
    /\ UNCHANGED ringVars

\* line 143: return 0
L143 ==
    /\ pc = "l143"
    /\ ret' = 0
    /\ pc' = "done"
    /\ UNCHANGED <<mask, i, v, config_data, vi, counts_primed_spins_equal,
                   counts_primed_spins_unequal, ofs, first_iter, mi>>
    /\ UNCHANGED ringVars

Next ==
    \/ L71 \/ L72 \/ L75 \/ L78 \/ L82 \/ L84 \/ L85 \/ L87 \/ L89 \/ L91 \/ L92
    \/ L105 \/ L102Exit \/ L118 \/ L119 \/ L124 \/ L130 \/ L136 \/ L142 \/ L143

Spec == Init /\ [][Next]_vars

-----------------------------------------------------------------------------
(* energy() applied to rings of every length from 2 to MaxRing *)

Rings == UNION {[1..n -> Spins] : n \in 2..MaxRing}

InitRing ==
    /\ pc = "off"
    /\ mask = 0
    /\ i = 0
    /\ v = <<>>
    /\ config_data = NoStream
    /\ vi = 1
    /\ counts_primed_spins_equal = EmptyMap
    /\ counts_primed_spins_unequal = EmptyMap
    /\ ofs = NoStream
    /\ first_iter = TRUE
    /\ mi = MapEnd
    /\ ret = -1
    /\ ring \in Rings
    /\ ring0 = ring
    /\ e = 0
    /\ e0 = 0
    /\ rpc = "init"

\* the ring turned by one place: the second element comes first
Rotate(r) == [k \in 1..Len(r) |-> r[(k % Len(r)) + 1]]

\* the ring in the opposite order
Reverse(r) == [k \in 1..Len(r) |-> r[Len(r) + 1 - k]]

\* energy(ring.begin(), ring.end()), as at lines 84 and 91
CallEnergy ==
    /\ rpc = "init"
    /\ e' = energy(ring, 1, Len(ring) + 1)
    /\ e0' = e'
    /\ rpc' = "called"
    /\ UNCHANGED <<ring, ring0>>
    /\ UNCHANGED mainVars

\* energy() of the ring turned by one place
CallRotated ==
    /\ rpc = "called"
    /\ ring' = Rotate(ring)
    /\ e' = energy(ring', 1, Len(ring') + 1)
    /\ UNCHANGED <<ring0, e0, rpc>>
    /\ UNCHANGED mainVars

\* energy() of the ring in the opposite order
CallReversed ==
    /\ rpc = "called"
    /\ ring' = Reverse(ring)
    /\ e' = energy(ring', 1, Len(ring') + 1)
    /\ UNCHANGED <<ring0, e0, rpc>>
    /\ UNCHANGED mainVars

NextRing == CallEnergy \/ CallRotated \/ CallReversed

SpecRing == InitRing /\ [][NextRing]_vars

-----------------------------------------------------------------------------
(* The claims *)

\* the positions of main() where the last row of v is still being built
RowPcs == {"l82", "l84", "l85", "l87", "l89", "l91", "l92"}

\* the positions of main() after the enumeration loop
AfterEnum == {"l102", "l118", "l119", "l121", "l133", "l143", "done"}

\* the positions of main() after the counting loop
AfterCount == {"l118", "l119", "l121", "l133", "l143", "done"}

\* row j of v has all its fields
RowDone(j) == j < Len(v) \/ pc \notin (RowPcs \ {"l92"})

\* the inverse of the bit mapping: s1 is bit 5, ..., s6 is bit 0
RECURSIVE EncodeFrom(_, _)
EncodeFrom(s, k) ==
    IF k > Len(s) THEN 0
    ELSE (IF s[k] = 1 THEN 2^(Len(s) - k) ELSE 0) + EncodeFrom(s, k + 1)

Encode(s) == EncodeFrom(s, 1)

\* the sum over k = 1..n of r[k] * r[(k mod n) + 1]
RECURSIVE CyclicSumFrom(_, _)
CyclicSumFrom(r, k) ==
    IF k > Len(r) THEN 0
    ELSE r[k] * r[(k % Len(r)) + 1] + CyclicSumFrom(r, k + 1)

CyclicSum(r) == CyclicSumFrom(r, 1)

IsPrefix(a, b) == Len(a) <= Len(b) /\ \A k \in 1..Len(a) : a[k] = b[k]

(* C1: the enumeration visits every k in 0..63 once, in ascending order:   *)
(* row k+1 of v is the configuration of k, its spins are +1 or -1, and     *)
(* re-encoding them (bit 5 from s1 down to bit 0 from s6) returns k; after *)
(* the loop there are exactly 64 rows and they are pairwise distinct.      *)
C1_EnumerationBijection ==
    /\ mask \in 0..NumConfigs
    /\ pc # "l71" => Len(v) = (IF pc \in RowPcs THEN mask + 1 ELSE mask)
    /\ \A j \in 1..Len(v) :
          /\ \A k \in 1..Len(v[j].spin1) : v[j].spin1[k] \in Spins
          /\ (j < Len(v) \/ pc # "l82") => Len(v[j].spin1) = NumSpins
          /\ Len(v[j].spin1) = NumSpins => Encode(v[j].spin1) = j - 1
    /\ pc \in AfterEnum => Len(v) = NumConfigs
    /\ pc = "l118" =>
          \A j, k \in 1..Len(v) : j # k => v[j].spin1 # v[k].spin1

C1_Witness ==
    /\ pc = "done"
    /\ Len(v) = NumConfigs
    /\ v[NumConfigs].spin1 = <<1, 1, 1, 1, 1, 1>>
    /\ v[33].spin1 = <<1, -1, -1, -1, -1, -1>>
    /\ v[2].spin1 = <<-1, -1, -1, -1, -1, 1>>

\* the rows among the first n of the class eq (TRUE: s1' = s2')
Counted(n, eq) == {j \in 1..n : (v[j].spin2[1] = v[j].spin2[2]) = eq}

\* the table m counts, per H1, the rows among the first n of class eq
TableOf(m, n, eq) ==
    /\ DOMAIN m = {v[j].H1 : j \in Counted(n, eq)}
    /\ \A h \in DOMAIN m :
          m[h] = Cardinality({j \in Counted(n, eq) : v[j].H1 = h})

RECURSIVE SumOver(_, _)
SumOver(m, keys) ==
    IF keys = {} THEN 0
    ELSE LET k == CHOOSE x \in keys : TRUE
         IN  m[k] + SumOver(m, keys \ {k})

SumCounts(m) == SumOver(m, DOMAIN m)

(* C2: when the counting loop has processed n rows, each of them has       *)
(* incremented exactly one count, in the table of its own class under its  *)
(* own H1: each table's count for h is the number of rows of that class    *)
(* with H1 = h and the counts of both tables sum to n; after the loop      *)
(* n = 64 and neither class is empty.                                      *)
C2_Partition ==
    pc \in AfterEnum =>
        /\ TableOf(counts_primed_spins_equal, vi - 1, TRUE)
        /\ TableOf(counts_primed_spins_unequal, vi - 1, FALSE)
        /\ Counted(vi - 1, TRUE) \cap Counted(vi - 1, FALSE) = {}
        /\ Counted(vi - 1, TRUE) \cup Counted(vi - 1, FALSE) = 1..(vi - 1)
        /\ SumCounts(counts_primed_spins_equal)
             + SumCounts(counts_primed_spins_unequal) = vi - 1
        /\ pc \in AfterCount =>
              /\ vi - 1 = NumConfigs
              /\ SumCounts(counts_primed_spins_equal) > 0
              /\ SumCounts(counts_primed_spins_unequal) > 0

C2_Witness ==
    /\ pc = "l118"
    /\ counts_primed_spins_equal = (-2 :> 14) @@ (2 :> 16) @@ (6 :> 2)
    /\ counts_primed_spins_unequal = (-6 :> 2) @@ (-2 :> 16) @@ (2 :> 14)

\* an output stream has failed: it could not be opened or written
ConfigFailed == pc # "l71" /\ ~config_data.good

OfsFailed == pc \in {"l119", "l121", "l133", "l143", "done"} /\ ~ofs.good

(* C3: if either artifact cannot be created or written the run is aborted: *)
(* it does not go on to the following stages (the enumeration after a      *)
(* failure of cfg_out.txt, the second equation after a failure of          *)
(* renorm_out.txt) and does not end by returning 0.                        *)
C3_AbortOnIOFailure ==
    /\ ConfigFailed => pc \in {"l72", "l75"} /\ mask = 0
    /\ (ConfigFailed \/ OfsFailed) => ~(pc = "done" /\ ret = 0)

(* C4: for every ring of 2 to MaxRing spins energy() returns the sum over  *)
(* k = 1..n of r[k] * r[(k mod n) + 1]; for a ring of two it returns       *)
(* 2 * s1 * s2.                                                            *)
C4_EnergyIsCyclicSum ==
    rpc = "called" =>
        /\ e = CyclicSum(ring)
        /\ Len(ring) = 2 => e = 2 * ring[1] * ring[2]

C4_Witness ==
    /\ rpc = "called"
    /\ ring = <<1, -1>>
    /\ e = -2

\* the number of +1 among s[a..b]
PlusCount(s, a, b) == Cardinality({k \in a..b : s[k] = 1})

\* the block spin of s[a..a+2] as the claim states it
BlockSpinIs(x, s, a) ==
    /\ x \in Spins
    /\ s[a] + s[a + 1] + s[a + 2] # 0
    /\ x = (IF s[a] + s[a + 1] + s[a + 2] > 0 THEN 1 ELSE -1)
    /\ x = 1 <=> PlusCount(s, a, a + 2) >= 2

(* C5: in every row s1' is the majority of s1,s2,s3 and s2' that of        *)
(* s4,s5,s6: +1 if the sum of the three is > 0 and -1 otherwise, which is  *)
(* +1 exactly when at least two are +1; the sum is never 0.                *)
C5_MajorityRule ==
    \A j \in 1..Len(v) :
        /\ Len(v[j].spin2) >= 1 => BlockSpinIs(v[j].spin2[1], v[j].spin1, 1)
        /\ Len(v[j].spin2) >= 2 => BlockSpinIs(v[j].spin2[2], v[j].spin1, 4)
        /\ RowDone(j) => Len(v[j].spin2) = 2

C5_Witness ==
    /\ pc = "l75"
    /\ \E j \in 1..Len(v) :
          /\ v[j].spin1 = <<1, -1, 1, -1, 1, -1>>
          /\ v[j].spin2 = <<1, -1>>
    /\ \E j \in 1..Len(v) :
          /\ v[j].spin1 = <<-1, 1, 1, 1, -1, -1>>
          /\ v[j].spin2 = <<1, -1>>

EvenEnergies == {-6, -4, -2, 0, 2, 4, 6}

(* C6: for every configuration H1 is an even integer in [-6,6] and H2 is   *)
(* +2 or -2; every key of either table is an even integer in [-6,6].       *)
C6_EnergyRanges ==
    /\ \A j \in 1..Len(v) :
          RowDone(j) => v[j].H1 \in EvenEnergies /\ v[j].H2 \in {2, -2}
    /\ DOMAIN counts_primed_spins_equal \subseteq EvenEnergies
    /\ DOMAIN counts_primed_spins_unequal \subseteq EvenEnergies

C6_Witness ==
    /\ pc = "done"
    /\ \E j \in 1..Len(v) : v[j].H1 = -6 /\ v[j].H2 = -2
    /\ \E j \in 1..Len(v) : v[j].H1 = 6 /\ v[j].H2 = 2
    /\ -6 \in DOMAIN counts_primed_spins_unequal

\* the data line of a row: s1 s2 s3, s1', s4 s5 s6, s2', H1, H2
ExpectedLine(row) ==
    [kind |-> "data",
     cols |-> <<row.spin1[1], row.spin1[2], row.spin1[3], row.spin2[1],
                row.spin1[4], row.spin1[5], row.spin1[6], row.spin2[2],
                row.H1, row.H2>>]

(* C7: the lines of cfg_out.txt are the header first and then the rows of  *)
(* 0, 1, 2, ... in enumeration order with the columns s1 s2 s3, s1',       *)
(* s4 s5 s6, s2', H1, H2; while the stream is good there is one data line  *)
(* per finished configuration, 64 after the loop; nothing of the summary   *)
(* is written before the enumeration is over.                              *)
C7_RawTable ==
    /\ \A k \in 1..Len(config_data.file) :
          config_data.file[k] =
              (IF k = 1 THEN Header ELSE ExpectedLine(v[k - 1]))
    /\ (config_data.good /\ pc \notin {"l71", "l72"}) =>
          Len(config_data.file) = 1 + mask
    /\ (config_data.good /\ pc \in AfterEnum) =>
          Len(config_data.file) = 1 + NumConfigs
    /\ (ofs.file # <<>> \/ ofs.buf # <<>>) => pc \in AfterCount

C7_Witness ==
    /\ pc = "done"
    /\ config_data.good
    /\ Len(config_data.file) = 65
    /\ config_data.file[65].cols = <<1, 1, 1, 1, 1, 1, 1, 1, 6, 2>>
    /\ config_data.file[23].cols = <<-1, 1, -1, -1, 1, -1, 1, 1, -6, -2>>
    /\ Len(ofs.file) = 2

\* the line is the label, then one term per key of m in ascending order,
\* with "+ " between consecutive terms only
LineOf(line, label, m) ==
    LET n == Cardinality(DOMAIN m)
        terms == {p \in 2..Len(line) : p % 2 = 0}
    IN  /\ Len(line) = (IF n = 0 THEN 1 ELSE 2 * n)
        /\ line[1] = label
        /\ \A p \in 2..Len(line) :
              IF p % 2 = 0
              THEN /\ line[p].key \in DOMAIN m
                   /\ line[p] = Term(m[line[p].key], line[p].key)
              ELSE line[p] = Plus
        /\ \A p, q \in terms : p < q => line[p].key < line[q].key
        /\ {line[p].key : p \in terms} = DOMAIN m

(* C8: when renorm_out.txt has been written without failure it has two     *)
(* lines, the first for the equal class and the second for the unequal     *)
(* class; each has one term per key of its table, each key once, in        *)
(* ascending key order, "+ " between consecutive terms and nowhere else.   *)
C8_Summary ==
    (pc \in {"l143", "done"} /\ ofs.good) =>
        /\ Len(ofs.file) = 2
        /\ LineOf(ofs.file[1], LabelEqual, counts_primed_spins_equal)
        /\ LineOf(ofs.file[2], LabelUnequal, counts_primed_spins_unequal)

C8_Witness ==
    /\ pc = "done"
    /\ ofs.good
    /\ ofs.file[1] = <<LabelEqual, Term(14, -2), Plus, Term(16, 2), Plus,
                       Term(2, 6)>>
    /\ ofs.file[2] = <<LabelUnequal, Term(2, -6), Plus, Term(16, -2), Plus,
                       Term(14, 2)>>

(* C9: energy() returns the same value for a ring, for the ring in the     *)
(* opposite order and for every rotation of it (and of its reverse).       *)
C9_EnergySymmetry ==
    rpc = "called" =>
        /\ e = e0
        /\ Len(ring) = Len(ring0)

C9_Witness ==
    /\ rpc = "called"
    /\ ring0 = <<1, 1, -1, 1, -1, -1>>
    /\ ring = <<-1, 1, 1, -1, 1, -1>>
    /\ e = -2

\* the fields a step of main() at the current position reads are assigned
ReadsAssigned ==
    /\ pc \in {"l84", "l85", "l87", "l89", "l91", "l92"} =>
          Len(back.spin1) = NumSpins
    /\ pc = "l87" => Len(back.spin2) >= 1
    /\ pc \in {"l91", "l92"} => Len(back.spin2) = 2
    /\ pc = "l92" =>
          /\ back.H1 = CyclicSum(back.spin1)
          /\ back.H2 = CyclicSum(back.spin2)
    /\ (pc = "l102" /\ vi <= Len(v)) =>
          /\ Len(v[vi].spin1) = NumSpins
          /\ Len(v[vi].spin2) = 2
          /\ v[vi].H1 = CyclicSum(v[vi].spin1)

\* a step of main() changes no value of a row that has been produced
RowsKept ==
    /\ Len(v) <= Len(v')
    /\ \A j \in 1..Len(v) :
          /\ IsPrefix(v[j].spin1, v'[j].spin1)
          /\ IsPrefix(v[j].spin2, v'[j].spin2)
          /\ v'[j].H1 # v[j].H1 => pc = "l84" /\ j = Len(v)
          /\ v'[j].H2 # v[j].H2 => pc = "l91" /\ j = Len(v)
          /\ RowDone(j) => v'[j] = v[j]
    /\ pc \in AfterEnum => v' = v

(* C10: every value of a row is produced once and never changed: a step    *)
(* only appends spins to the row being built or assigns its H1 (at line    *)
(* 84) or H2 (at line 91); no step reads a field before it is assigned;    *)
(* the counting and writing stages leave v unchanged.                      *)
C10_ProducedOnce == [][ReadsAssigned /\ RowsKept]_vars

C10_Witness ==
    /\ pc = "l118"
    /\ Len(v) = NumConfigs
    /\ v[1] = [spin1 |-> <<-1, -1, -1, -1, -1, -1>>, H1 |-> 6,
               spin2 |-> <<-1, -1>>, H2 |-> 2]
    /\ v[43] = [spin1 |-> <<1, -1, 1, -1, 1, -1>>, H1 |-> -6,
                spin2 |-> <<1, -1>>, H2 |-> -2]

=============================================================================
